---- MODULE Spec2Model ----
(***************************************************************************)
(* Model of examples/train_from_scratch.py: the body of                    *)
(* train_from_scratch() as a straight-line program executed by one or more *)
(* operating-system processes.  Each statement of the function is one      *)
(* action; a process's local variables are the fields of its frame.        *)
(* The library calls the script makes (farm, transformers) are modelled     *)
(* by the contract the specification gives for them.                        *)
(***************************************************************************)
EXTENDS Integers, Sequences, FiniteSets, TLC

(* ------------------------------- bounds -------------------------------- *)
\* number of processes modelled side by side / largest world size
MaxProcs == 2
\* longest vocabulary file (lines)
MaxVocab == 2
\* the corpus holds up to about MaxBatchUnits * batch_size samples
MaxBatchUnits == 4
\* SpecHyper: largest dataset, batch size, gradient accumulation, epochs
MaxDataset == 8
MaxHyperBatch == 2
MaxHyperAcc == 3
MaxHyperEpochs == 2

(* -------------------------- program constants -------------------------- *)
DefaultLocalRank == -1
Seed == 39
EvaluateEvery == 10000
MaxSeqLen == 128
BatchSize == 60
GradAcc == 4
NEpochs == 1
HiddenSize == 768
NextSentenceClasses == 2

\* Python's None, and an optional value that is set
None == << >>
Some(v) == << v >>

SaveDir == "saved_models/train_from_scratch"
DataDir == "data/lm_finetune_nips"
TrainFilename == "train.txt"
VocabFile == "bert-base-uncased-vocab.txt"
UseAmp == None
CheckpointEvery == None
\* variant: the checkpoint root of the commented-out lines 110-112
CheckpointRootDirResume == Some("/opt/ml/checkpoints/training")
CheckpointRootDir == None
SiloDistributed == TRUE
OptimizerDistributed == TRUE

Procs == 1 .. MaxProcs
Tokens == {"[PAD]", "[MASK]", "the"}

\* variants of the program with one statement moved: the seeding after the
\* model assembly, model.save before the training, the model parts before the
\* data pipeline
ProgramSeedLate ==
    << "parse_arguments", "use_amp", "basicConfig", "init_experiment",
       "initialize_device_settings", "config",
       "BertTokenizer", "BertStyleLMProcessor", "StreamingDataSilo",
       "from_scratch", "BertLMHead", "NextSentenceHead", "AdaptiveModel",
       "set_all_seeds",
       "initialize_optimizer", "checkpoint_config",
       "create_or_load_checkpoint", "train", "model_save", "processor_save" >>
ProgramSaveEarly ==
    << "parse_arguments", "use_amp", "basicConfig", "init_experiment",
       "set_all_seeds", "initialize_device_settings", "config",
       "BertTokenizer", "BertStyleLMProcessor", "StreamingDataSilo",
       "from_scratch", "BertLMHead", "NextSentenceHead", "AdaptiveModel",
       "initialize_optimizer", "checkpoint_config",
       "create_or_load_checkpoint", "model_save", "train", "processor_save" >>
ProgramDataFirst ==
    << "parse_arguments", "use_amp", "basicConfig", "init_experiment",
       "set_all_seeds", "initialize_device_settings", "config",
       "BertTokenizer", "from_scratch", "BertLMHead", "NextSentenceHead",
       "BertStyleLMProcessor", "StreamingDataSilo", "AdaptiveModel",
       "initialize_optimizer", "checkpoint_config",
       "create_or_load_checkpoint", "train", "model_save", "processor_save" >>
\* the statements of train_from_scratch, in source order
Program ==
    << "parse_arguments", "use_amp", "basicConfig", "init_experiment",
       "set_all_seeds", "initialize_device_settings", "config",
       "BertTokenizer", "BertStyleLMProcessor", "StreamingDataSilo",
       "from_scratch", "BertLMHead", "NextSentenceHead", "AdaptiveModel",
       "initialize_optimizer", "checkpoint_config",
       "create_or_load_checkpoint", "train", "model_save", "processor_save" >>

\* variant: the data silo built from args as well
ReadsRankInSilo(s) ==
    CASE s = "initialize_device_settings" -> {"args", "use_amp"}
      [] s = "BertTokenizer" -> {"data_dir", "vocab_file"}
      [] s = "BertStyleLMProcessor" ->
            {"data_dir", "tokenizer", "max_seq_len", "train_filename"}
      [] s = "StreamingDataSilo" -> {"processor", "batch_size", "args"}
      [] s = "from_scratch" -> {"tokenizer"}
      [] s = "BertLMHead" -> {"tokenizer"}
      [] s = "AdaptiveModel" ->
            {"language_model", "lm_prediction_head", "next_sentence_head",
             "device"}
      [] s = "initialize_optimizer" ->
            {"model", "learning_rate", "warmup_proportion", "stream_data_silo",
             "n_epochs", "device", "grad_acc", "use_amp", "args"}
      [] s = "create_or_load_checkpoint" ->
            {"model", "optimizer", "stream_data_silo", "n_epochs", "n_gpu",
             "lr_schedule", "evaluate_every", "device", "grad_acc",
             "checkpoint_every", "checkpoint_root_dir", "use_amp"}
      [] s = "train" -> {"trainer"}
      [] s = "model_save" -> {"model", "save_dir"}
      [] s = "processor_save" -> {"processor", "save_dir"}
      [] OTHER -> {}
\* the local names a statement reads
Reads(s) ==
    CASE s = "initialize_device_settings" -> {"args", "use_amp"}
      [] s = "BertTokenizer" -> {"data_dir", "vocab_file"}
      [] s = "BertStyleLMProcessor" ->
            {"data_dir", "tokenizer", "max_seq_len", "train_filename"}
      [] s = "StreamingDataSilo" -> {"processor", "batch_size"}
      [] s = "from_scratch" -> {"tokenizer"}
      [] s = "BertLMHead" -> {"tokenizer"}
      [] s = "AdaptiveModel" ->
            {"language_model", "lm_prediction_head", "next_sentence_head",
             "device"}
      [] s = "initialize_optimizer" ->
            {"model", "learning_rate", "warmup_proportion", "stream_data_silo",
             "n_epochs", "device", "grad_acc", "use_amp", "args"}
      [] s = "create_or_load_checkpoint" ->
            {"model", "optimizer", "stream_data_silo", "n_epochs", "n_gpu",
             "lr_schedule", "evaluate_every", "device", "grad_acc",
             "checkpoint_every", "checkpoint_root_dir", "use_amp"}
      [] s = "train" -> {"trainer"}
      [] s = "model_save" -> {"model", "save_dir"}
      [] s = "processor_save" -> {"processor", "save_dir"}
      [] OTHER -> {}

\* the local names a statement binds
Writes(s) ==
    CASE s = "parse_arguments" -> {"args"}
      [] s = "use_amp" -> {"use_amp"}
      [] s = "init_experiment" -> {"ml_logger"}
      [] s = "initialize_device_settings" -> {"device", "n_gpu"}
      [] s = "config" ->
            {"evaluate_every", "save_dir", "data_dir", "train_filename",
             "max_seq_len", "batch_size", "grad_acc", "learning_rate",
             "warmup_proportion", "n_epochs", "vocab_file"}
      [] s = "BertTokenizer" -> {"tokenizer"}
      [] s = "BertStyleLMProcessor" -> {"processor"}
      [] s = "StreamingDataSilo" -> {"stream_data_silo"}
      [] s = "from_scratch" -> {"language_model"}
      [] s = "BertLMHead" -> {"lm_prediction_head"}
      [] s = "NextSentenceHead" -> {"next_sentence_head"}
      [] s = "AdaptiveModel" -> {"model"}
      [] s = "initialize_optimizer" -> {"model", "optimizer", "lr_schedule"}
      [] s = "checkpoint_config" -> {"checkpoint_every", "checkpoint_root_dir"}
      [] s = "create_or_load_checkpoint" -> {"trainer"}
      [] OTHER -> {}

\* the statements that are calls, which may raise
Calls ==
    { "parse_arguments", "basicConfig", "init_experiment", "set_all_seeds",
      "initialize_device_settings", "BertTokenizer", "BertStyleLMProcessor",
      "StreamingDataSilo", "from_scratch", "BertLMHead", "NextSentenceHead",
      "AdaptiveModel", "initialize_optimizer", "create_or_load_checkpoint",
      "train", "model_save", "processor_save" }


(* -------------------------------- state -------------------------------- *)
VARIABLES
    frame,              \* per process: control state and the locals of train_from_scratch
    world_size,         \* number of processes of the distributed run
    vocab_txt,          \* lines of data_dir/vocab_file
    train_samples,      \* number of samples in data_dir/train_filename
    disk,               \* files written by the run: <<directory, file>> -> content
    writers,            \* processes with a save to the save directory in progress
    checkpoint_on_disk, \* a training checkpoint left under the checkpoint root, or None
    checkpoints_written,\* checkpoints written by the training loops
    tracking_runs,      \* runs opened at the experiment-tracking service
    reloaded            \* per process: the pair loaded back from the save directory

vars == << frame, world_size, vocab_txt, train_samples, disk, writers,
           checkpoint_on_disk, checkpoints_written, tracking_runs, reloaded >>

Range(q) == { q[i] : i \in DOMAIN q }
Injective(q) == \A i, j \in DOMAIN q : q[i] = q[j] => i = j
CeilDiv(a, b) == (a + b - 1) \div b

\* well-formed vocabulary files: one distinct token per line
VocabFiles ==
    { q \in UNION { [1 .. n -> Tokens] : n \in 1 .. MaxVocab } : Injective(q) }
\* command lines: the flag absent, or --local_rank r
Argvs == { None } \cup { Some(r) : r \in 0 .. (MaxProcs - 1) }
\* corpus sizes at and just past the multiples of the batch size
DatasetSizes ==
    {1} \cup UNION { { BatchSize * k, BatchSize * k + 1 } : k \in 1 .. MaxBatchUnits }
\* state of the process-wide random number generators before seeding
Entropy == { "entropy_a", "entropy_b" }

NotStarted ==
    [ status |-> "off", pc |-> 1, bound |-> {}, trace |-> << >>,
      tainted |-> {}, rank_calls |-> {}, raised_at |-> 0, saving |-> FALSE,
      saves_begun |-> << >>,
      argv |-> None, entropy |-> "entropy_a",
      rng |-> [src |-> "entropy", val |-> "entropy_a", draws |-> 0],
      logging |-> None,
      args |-> None, use_amp |-> None, ml_logger |-> None,
      device |-> None, n_gpu |-> None, evaluate_every |-> None,
      save_dir |-> None, data_dir |-> None, train_filename |-> None,
      max_seq_len |-> None, batch_size |-> None, grad_acc |-> None,
      learning_rate |-> None, warmup_proportion |-> None, n_epochs |-> None,
      vocab_file |-> None, tokenizer |-> None, processor |-> None,
      stream_data_silo |-> None, language_model |-> None,
      lm_prediction_head |-> None, next_sentence_head |-> None,
      model |-> None, optimizer |-> None, lr_schedule |-> None,
      checkpoint_every |-> None, checkpoint_root_dir |-> None,
      trainer |-> None ]

Started(argv, e) ==
    [ NotStarted EXCEPT !.status = "running", !.argv = argv, !.entropy = e,
                        !.rng = [src |-> "entropy", val |-> e, draws |-> 0] ]

NothingReloaded == [ loaded |-> FALSE, complete |-> FALSE, vocab |-> << >>, shapes |-> << >> ]

\* a checkpoint an interrupted earlier run may have left behind
OldCheckpoint == [ micro |-> 1, global_step |-> 1 ]

InitShared ==
    /\ disk = << >>
    /\ writers = {}
    /\ checkpoints_written = 0
    /\ tracking_runs = 0
    /\ reloaded = [ p \in Procs |-> NothingReloaded ]

\* one process of a run of world_size participants, every input free
Init ==
    /\ InitShared
    /\ world_size \in 1 .. MaxProcs
    /\ vocab_txt \in VocabFiles
    /\ train_samples \in DatasetSizes
    /\ checkpoint_on_disk \in { None, Some(OldCheckpoint) }
    /\ \E argv \in Argvs, e \in Entropy :
          frame = [ p \in Procs |-> IF p = 1 THEN Started(argv, e) ELSE NotStarted ]

(* ------------------------- statement bookkeeping ------------------------ *)
At(p, s) ==
    /\ frame[p].status = "running"
    /\ frame[p].pc \in 1 .. Len(Program)
    /\ Program[frame[p].pc] = s
    /\ Reads(s) \subseteq frame[p].bound

\* the statement completes: control moves on, its targets are bound, and
\* what was computed from --local_rank is marked
Done(f, s) ==
    [ f EXCEPT !.pc = @ + 1,
               !.trace = Append(@, s),
               !.bound = @ \cup Writes(s),
               !.tainted = IF s = "parse_arguments" \/ Reads(s) \cap @ # {}
                           THEN @ \cup Writes(s) ELSE @ \ Writes(s),
               !.rank_calls = IF "args" \in Reads(s) THEN @ \cup {s} ELSE @ ]

\* variant: the exception is caught and the next statement runs
Swallow(f) ==
    [ f EXCEPT !.pc = @ + 1, !.raised_at = f.pc, !.saving = FALSE ]
\* an exception leaves train_from_scratch: nothing catches it
Propagate(f) ==
    [ f EXCEPT !.status = "aborted", !.raised_at = f.pc, !.saving = FALSE ]

Env == << world_size, vocab_txt, train_samples >>
Outputs == << disk, writers, checkpoint_on_disk, checkpoints_written,
              tracking_runs, reloaded >>

(* ------------------------------ statements ----------------------------- *)
\* parse_arguments(): --local_rank, an int, default -1
ParseLocalRank(argv) == IF argv = None THEN DefaultLocalRank ELSE argv[1]

ParseArguments(p) ==
    /\ At(p, "parse_arguments")
    /\ LET f == frame[p] IN
       frame' = [ frame EXCEPT ![p] =
          Done([ f EXCEPT !.args = [ local_rank |-> ParseLocalRank(f.argv) ] ],
               "parse_arguments") ]
    /\ UNCHANGED << Env, Outputs >>

AssignUseAmp(p) ==
    /\ At(p, "use_amp")
    /\ LET f == frame[p] IN
       frame' = [ frame EXCEPT ![p] = Done([ f EXCEPT !.use_amp = UseAmp ], "use_amp") ]
    /\ UNCHANGED << Env, Outputs >>

BasicConfig(p) ==
    /\ At(p, "basicConfig")
    /\ LET f == frame[p] IN
       frame' = [ frame EXCEPT ![p] =
          Done([ f EXCEPT !.logging = Some("INFO") ], "basicConfig") ]
    /\ UNCHANGED << Env, Outputs >>

\* the generators advance when a component draws from them
Draw(rng) == [ rng EXCEPT !.draws = @ + 1 ]

\* MLFlowLogger(tracking_uri="").init_experiment(...): a run is opened
InitExperiment(p) ==
    /\ At(p, "init_experiment")
    /\ LET f == frame[p] IN
       frame' = [ frame EXCEPT ![p] =
          Done([ f EXCEPT !.ml_logger = [ tracking_uri |-> "",
                                          experiment_name |-> "train_from_scratch",
                                          run_name |-> "run" ],
                          !.rng = Draw(f.rng) ],
               "init_experiment") ]
    /\ tracking_runs' = tracking_runs + 1
    /\ UNCHANGED << Env, disk, writers, checkpoint_on_disk, checkpoints_written,
                    reloaded >>

\* set_all_seeds(seed): every generator restarts from the seed
SeedAll(rng, seed) == [ src |-> "seed", val |-> seed, draws |-> 0 ]

SetAllSeeds(p) ==
    /\ At(p, "set_all_seeds")
    /\ LET f == frame[p] IN
       frame' = [ frame EXCEPT ![p] =
          Done([ f EXCEPT !.rng = SeedAll(f.rng, Seed) ], "set_all_seeds") ]
    /\ UNCHANGED << Env, Outputs >>

\* initialize_device_settings(use_cuda, args, use_amp): the device of this rank
DeviceFor(use_cuda, local_rank, use_amp) ==
    [ device |-> [ type |-> IF use_cuda THEN "cuda" ELSE "cpu",
                   index |-> local_rank, use_amp |-> use_amp ],
      n_gpu |-> 1 ]

InitializeDeviceSettings(p) ==
    /\ At(p, "initialize_device_settings")
    /\ LET f == frame[p]
           d == DeviceFor(TRUE, f.args.local_rank, f.use_amp) IN
       frame' = [ frame EXCEPT ![p] =
          Done([ f EXCEPT !.device = d.device, !.n_gpu = d.n_gpu ],
               "initialize_device_settings") ]
    /\ UNCHANGED << Env, Outputs >>

\* lines 46-59: the hyperparameters and paths
Configure(p, batch_size, grad_acc, n_epochs) ==
    /\ At(p, "config")
    /\ LET f == frame[p] IN
       frame' = [ frame EXCEPT ![p] =
          Done([ f EXCEPT !.evaluate_every = EvaluateEvery,
                          !.save_dir = SaveDir,
                          !.data_dir = DataDir,
                          !.train_filename = TrainFilename,
                          !.max_seq_len = MaxSeqLen,
                          !.batch_size = batch_size,
                          !.grad_acc = grad_acc,
                          !.learning_rate = "0.0001",
                          !.warmup_proportion = "0.01",
                          !.n_epochs = n_epochs,
                          !.vocab_file = VocabFile ],
               "config") ]
    /\ UNCHANGED << Env, Outputs >>

AssignConfig(p) == Configure(p, BatchSize, GradAcc, NEpochs)


\* BertTokenizer(vocab file): token -> index, the index of a line counted from 0
\* (a token on several lines keeps its last index)
LoadVocab(lines) ==
    [ t \in Range(lines) |->
        (CHOOSE i \in DOMAIN lines :
            lines[i] = t /\ \A j \in DOMAIN lines : lines[j] = t => j <= i) - 1 ]
VocabSize(tokenizer) == Cardinality(DOMAIN tokenizer.vocab)

BertTokenizer(p) ==
    /\ At(p, "BertTokenizer")
    /\ LET f == frame[p] IN
       frame' = [ frame EXCEPT ![p] =
          Done([ f EXCEPT !.tokenizer = [ vocab_path |-> << f.data_dir, f.vocab_file >>,
                                          do_lower_case |-> TRUE,
                                          vocab |-> LoadVocab(vocab_txt) ] ],
               "BertTokenizer") ]
    /\ UNCHANGED << Env, Outputs >>

BertStyleLMProcessor(p) ==
    /\ At(p, "BertStyleLMProcessor")
    /\ LET f == frame[p] IN
       frame' = [ frame EXCEPT ![p] =
          Done([ f EXCEPT !.processor = [ data_dir |-> f.data_dir,
                                          tokenizer |-> f.tokenizer,
                                          max_seq_len |-> f.max_seq_len,
                                          train_filename |-> f.train_filename,
                                          dev_filename |-> None,
                                          test_filename |-> None ] ],
               "BertStyleLMProcessor") ]
    /\ UNCHANGED << Env, Outputs >>

\* the distributed flag the data silo is built with
SiloDistributedArg(f) == SiloDistributed

StreamingDataSilo(p) ==
    /\ At(p, "StreamingDataSilo")
    /\ LET f == frame[p] IN
       frame' = [ frame EXCEPT ![p] =
          Done([ f EXCEPT !.stream_data_silo = [ processor |-> f.processor,
                                                 batch_size |-> f.batch_size,
                                                 distributed |-> SiloDistributedArg(f) ] ],
               "StreamingDataSilo") ]
    /\ UNCHANGED << Env, Outputs >>

\* the vocabulary sizes handed to the encoder and to the masked-LM head
EncoderVocabArg(f) == VocabSize(f.tokenizer)
\* variant: the head sized for the pretrained vocabulary
HeadVocabPretrained(f) == 30522
HeadVocabArg(f) == VocabSize(f.tokenizer)

FromScratch(p) ==
    /\ At(p, "from_scratch")
    /\ LET f == frame[p] IN
       frame' = [ frame EXCEPT ![p] =
          Done([ f EXCEPT !.language_model = [ name |-> "bert",
                                               vocab_size |-> EncoderVocabArg(f),
                                               init_rng |-> f.rng ],
                          !.rng = Draw(f.rng) ],
               "from_scratch") ]
    /\ UNCHANGED << Env, Outputs >>

BertLMHead(p) ==
    /\ At(p, "BertLMHead")
    /\ LET f == frame[p] IN
       frame' = [ frame EXCEPT ![p] =
          Done([ f EXCEPT !.lm_prediction_head = [ hidden_size |-> HiddenSize,
                                                   vocab_size |-> HeadVocabArg(f),
                                                   init_rng |-> f.rng ],
                          !.rng = Draw(f.rng) ],
               "BertLMHead") ]
    /\ UNCHANGED << Env, Outputs >>

NextSentenceHead(p) ==
    /\ At(p, "NextSentenceHead")
    /\ LET f == frame[p] IN
       frame' = [ frame EXCEPT ![p] =
          Done([ f EXCEPT !.next_sentence_head = [ layer_dims |-> << HiddenSize, NextSentenceClasses >>,
                                                   task_name |-> "nextsentence",
                                                   init_rng |-> f.rng ],
                          !.rng = Draw(f.rng) ],
               "NextSentenceHead") ]
    /\ UNCHANGED << Env, Outputs >>

AdaptiveModel(p) ==
    /\ At(p, "AdaptiveModel")
    /\ LET f == frame[p] IN
       frame' = [ frame EXCEPT ![p] =
          Done([ f EXCEPT !.model = [ language_model |-> f.language_model,
                                      prediction_heads |-> << f.lm_prediction_head,
                                                              f.next_sentence_head >>,
                                      embeds_dropout_prob |-> "0.1",
                                      lm_output_types |-> << "per_token", "per_sequence" >>,
                                      device |-> f.device,
                                      updates |-> 0 ] ],
               "AdaptiveModel") ]
    /\ UNCHANGED << Env, Outputs >>

\* len(stream_data_silo.get_data_loader("train")): batches per epoch of this process
LenDataLoader(silo) ==
    CeilDiv(train_samples, silo.batch_size * (IF silo.distributed THEN world_size ELSE 1))

\* the number of optimizer steps the learning-rate schedule is laid out for
TotalSteps(n_batches, n_epochs, grad_acc_steps) ==
    (n_batches * n_epochs) \div grad_acc_steps

OptimizerGradAccArg(f) == f.grad_acc
OptimizerEpochsArg(f) == f.n_epochs

InitializeOptimizer(p) ==
    /\ At(p, "initialize_optimizer")
    /\ LET f == frame[p]
           n_batches == LenDataLoader(f.stream_data_silo) IN
       frame' = [ frame EXCEPT ![p] =
          Done([ f EXCEPT !.optimizer = [ learning_rate |-> f.learning_rate,
                                          n_batches |-> n_batches,
                                          n_epochs |-> OptimizerEpochsArg(f),
                                          grad_acc_steps |-> OptimizerGradAccArg(f),
                                          device |-> f.device,
                                          distributed |-> OptimizerDistributed,
                                          use_amp |-> f.use_amp,
                                          local_rank |-> f.args.local_rank ],
                          !.lr_schedule = [ name |-> "LinearWarmup",
                                            warmup_proportion |-> f.warmup_proportion,
                                            total_steps |-> TotalSteps(n_batches,
                                                              OptimizerEpochsArg(f),
                                                              OptimizerGradAccArg(f)),
                                            position |-> 0 ] ],
               "initialize_optimizer") ]
    /\ UNCHANGED << Env, Outputs >>

AssignCheckpoint(p) ==
    /\ At(p, "checkpoint_config")
    /\ LET f == frame[p] IN
       frame' = [ frame EXCEPT ![p] =
          Done([ f EXCEPT !.checkpoint_every = CheckpointEvery,
                          !.checkpoint_root_dir = CheckpointRootDir ],
               "checkpoint_config") ]
    /\ UNCHANGED << Env, Outputs >>

\* variant: grad_acc_steps left at its default
TrainerGradAccDefault(f) == 1
TrainerGradAccArg(f) == f.grad_acc
TrainerEpochsArg(f) == f.n_epochs

\* Trainer.create_or_load_checkpoint: resume from the checkpoint under the root
\* directory when one is given and a checkpoint exists there, else a new Trainer
CreateOrLoadCheckpoint(p) ==
    /\ At(p, "create_or_load_checkpoint")
    /\ LET f == frame[p]
           resume == f.checkpoint_root_dir # None /\ checkpoint_on_disk # None
           from == IF resume THEN checkpoint_on_disk[1]
                   ELSE [ micro |-> 0, global_step |-> 0 ] IN
       frame' = [ frame EXCEPT ![p] =
          Done([ f EXCEPT !.trainer = [ epochs |-> TrainerEpochsArg(f),
                                        n_gpu |-> f.n_gpu,
                                        evaluate_every |-> f.evaluate_every,
                                        device |-> f.device,
                                        grad_acc_steps |-> TrainerGradAccArg(f),
                                        checkpoint_every |-> f.checkpoint_every,
                                        checkpoint_root_dir |-> f.checkpoint_root_dir,
                                        use_amp |-> f.use_amp,
                                        n_batches |-> LenDataLoader(f.stream_data_silo),
                                        resumed |-> resume,
                                        micro |-> from.micro,
                                        global_step |-> from.global_step ],
                          !.model = [ f.model EXCEPT !.updates = from.global_step ],
                          !.lr_schedule = [ f.lr_schedule EXCEPT !.position = from.global_step ] ],
               "create_or_load_checkpoint") ]
    /\ UNCHANGED << Env, Outputs >>

\* trainer.train(): one micro-batch; every grad_acc_steps-th one ends with an
\* optimizer step, and every checkpoint_every-th step with a checkpoint
TrainBatch(p) ==
    /\ At(p, "train")
    /\ LET f == frame[p]
           t == f.trainer
           micro == t.micro + 1
           steps == micro % t.grad_acc_steps = 0
           global_step == IF steps THEN t.global_step + 1 ELSE t.global_step
           saves == /\ steps
                    /\ t.checkpoint_every # None
                    /\ t.checkpoint_root_dir # None
                    /\ global_step % t.checkpoint_every[1] = 0 IN
       /\ t.micro < t.epochs * t.n_batches
       /\ frame' = [ frame EXCEPT ![p] =
             [ f EXCEPT !.trainer = [ t EXCEPT !.micro = micro,
                                               !.global_step = global_step ],
                        !.model = [ f.model EXCEPT !.updates = IF steps THEN @ + 1 ELSE @ ],
                        !.lr_schedule = [ f.lr_schedule EXCEPT
                                            !.position = IF steps THEN @ + 1 ELSE @ ] ] ]
       /\ checkpoint_on_disk' =
             IF saves THEN Some([ micro |-> micro, global_step |-> global_step ])
             ELSE checkpoint_on_disk
       /\ checkpoints_written' = IF saves THEN checkpoints_written + 1
                                 ELSE checkpoints_written
    /\ UNCHANGED << Env, disk, writers, tracking_runs, reloaded >>

TrainReturn(p) ==
    /\ At(p, "train")
    /\ frame[p].trainer.micro >= frame[p].trainer.epochs * frame[p].trainer.n_batches
    /\ frame' = [ frame EXCEPT ![p] = Done(frame[p], "train") ]
    /\ UNCHANGED << Env, Outputs >>


(* ------------------------------ persistence ---------------------------- *)
\* what model.save writes: the configuration, which fixes every parameter shape
ModelShapes(model) ==
    [ language_model |-> << model.language_model.name, model.language_model.vocab_size >>,
      lm_head |-> << model.prediction_heads[1].hidden_size,
                     model.prediction_heads[1].vocab_size >>,
      next_sentence_head |-> model.prediction_heads[2].layer_dims ]

\* what processor.save writes for the tokenizer: one token per line, by index
SaveVocab(vocab) ==
    [ i \in 1 .. Cardinality(DOMAIN vocab) |->
        CHOOSE t \in DOMAIN vocab :
            Cardinality({ u \in DOMAIN vocab : vocab[u] < vocab[t] }) = i - 1 ]

ProcessorConfig(processor) ==
    [ max_seq_len |-> processor.max_seq_len,
      train_filename |-> processor.train_filename,
      do_lower_case |-> processor.tokenizer.do_lower_case ]

WriteFile(d, dir, name, content) == (<< dir, name >> :> content) @@ d

ModelSaveDir(f) == f.save_dir
\* variant: the processor saved to a directory of its own
ProcessorSaveElsewhere(f) == "saved_models/processor"
ProcessorSaveDir(f) == f.save_dir

BeginSave(p, s) ==
    /\ At(p, s)
    /\ ~ frame[p].saving
    /\ frame' = [ frame EXCEPT ![p].saving = TRUE,
                               ![p].saves_begun = Append(@, s) ]
    /\ writers' = writers \cup {p}
    /\ UNCHANGED << Env, disk, checkpoint_on_disk, checkpoints_written,
                    tracking_runs, reloaded >>

ModelSaveBegin(p) == BeginSave(p, "model_save")

ModelSaveEnd(p) ==
    /\ At(p, "model_save")
    /\ frame[p].saving
    /\ LET f == frame[p] IN
       /\ disk' = WriteFile(disk, ModelSaveDir(f), "model", ModelShapes(f.model))
       /\ frame' = [ frame EXCEPT ![p] = Done([ f EXCEPT !.saving = FALSE ], "model_save") ]
    /\ writers' = writers \ {p}
    /\ UNCHANGED << Env, checkpoint_on_disk, checkpoints_written, tracking_runs,
                    reloaded >>

ProcessorSaveBegin(p) == BeginSave(p, "processor_save")

ProcessorSaveEnd(p) ==
    /\ At(p, "processor_save")
    /\ frame[p].saving
    /\ LET f == frame[p]
           dir == ProcessorSaveDir(f) IN
       /\ disk' = WriteFile(WriteFile(disk, dir, "processor_config",
                                      ProcessorConfig(f.processor)),
                            dir, "vocab.txt", SaveVocab(f.processor.tokenizer.vocab))
       /\ frame' = [ frame EXCEPT ![p] =
             Done([ f EXCEPT !.saving = FALSE ], "processor_save") ]
    /\ writers' = writers \ {p}
    /\ UNCHANGED << Env, checkpoint_on_disk, checkpoints_written, tracking_runs,
                    reloaded >>

\* train_from_scratch returns and the process exits
Return(p) ==
    /\ frame[p].status = "running"
    /\ frame[p].pc = Len(Program) + 1
    /\ frame' = [ frame EXCEPT ![p].status = "done" ]
    /\ UNCHANGED << Env, Outputs >>

\* the call at pc raises (or a name it reads is unbound): the exception
\* propagates out of train_from_scratch and the process ends
Raise(p) ==
    /\ frame[p].status = "running"
    /\ frame[p].pc \in 1 .. Len(Program)
    /\ \/ Program[frame[p].pc] \in Calls
       \/ ~ (Reads(Program[frame[p].pc]) \subseteq frame[p].bound)
    /\ frame' = [ frame EXCEPT ![p] = Propagate(frame[p]) ]
    /\ writers' = writers \ {p}
    /\ UNCHANGED << Env, disk, checkpoint_on_disk, checkpoints_written,
                    tracking_runs, reloaded >>

\* a later consumer loads the model and the processor back from the save directory
Reload(p) ==
    /\ frame[p].status = "done"
    /\ ~ reloaded[p].loaded
    /\ LET complete == { << SaveDir, "model" >>, << SaveDir, "processor_config" >>,
                         << SaveDir, "vocab.txt" >> } \subseteq DOMAIN disk IN
       reloaded' = [ reloaded EXCEPT ![p] =
          IF complete
          THEN [ loaded |-> TRUE, complete |-> TRUE,
                 vocab |-> LoadVocab(disk[<< SaveDir, "vocab.txt" >>]),
                 shapes |-> disk[<< SaveDir, "model" >>] ]
          ELSE [ NothingReloaded EXCEPT !.loaded = TRUE ] ]
    /\ UNCHANGED << Env, frame, disk, writers, checkpoint_on_disk,
                    checkpoints_written, tracking_runs >>

(* ---------------------------- specifications --------------------------- *)
Statement(p) ==
    \/ ParseArguments(p)
    \/ AssignUseAmp(p)
    \/ BasicConfig(p)
    \/ InitExperiment(p)
    \/ SetAllSeeds(p)
    \/ InitializeDeviceSettings(p)
    \/ BertTokenizer(p)
    \/ BertStyleLMProcessor(p)
    \/ StreamingDataSilo(p)
    \/ FromScratch(p)
    \/ BertLMHead(p)
    \/ NextSentenceHead(p)
    \/ AdaptiveModel(p)
    \/ InitializeOptimizer(p)
    \/ AssignCheckpoint(p)
    \/ CreateOrLoadCheckpoint(p)
    \/ TrainBatch(p)
    \/ TrainReturn(p)
    \/ ModelSaveBegin(p)
    \/ ModelSaveEnd(p)
    \/ ProcessorSaveBegin(p)
    \/ ProcessorSaveEnd(p)
    \/ Return(p)
    \/ Raise(p)
    \/ Reload(p)

Next == \E p \in Procs : Statement(p) \/ AssignConfig(p)

Spec == Init /\ [][Next]_vars


\* a distributed run: world_size processes, the launcher gives process p the
\* rank p - 1; all read the same files
InitDist ==
    /\ InitShared
    /\ world_size \in 1 .. MaxProcs
    /\ vocab_txt = << "[PAD]", "[MASK]" >>
    /\ train_samples = BatchSize * GradAcc * world_size
    /\ checkpoint_on_disk = None
    /\ frame = [ p \in Procs |-> IF p <= world_size
                                 THEN Started(Some(p - 1), "entropy_a")
                                 ELSE NotStarted ]

SpecDist == InitDist /\ [][Next]_vars

\* the hyperparameters of lines 54, 55 and 58 taken as parameters of the script
ConfigureAny(p) ==
    \E batch_size \in 1 .. MaxHyperBatch, grad_acc \in 1 .. MaxHyperAcc,
       n_epochs \in 1 .. MaxHyperEpochs :
        Configure(p, batch_size, grad_acc, n_epochs)

InitHyper ==
    /\ InitShared
    /\ world_size \in 1 .. MaxProcs
    /\ vocab_txt = << "[PAD]", "[MASK]" >>
    /\ train_samples \in 1 .. MaxDataset
    /\ checkpoint_on_disk = None
    /\ frame = [ p \in Procs |-> IF p = 1 THEN Started(None, "entropy_a")
                                 ELSE NotStarted ]

NextHyper == \E p \in Procs : Statement(p) \/ ConfigureAny(p)

SpecHyper == InitHyper /\ [][NextHyper]_vars


(* ------------------------------ properties ----------------------------- *)
Running == { p \in Procs : frame[p].status # "off" }
Ran(p, s) == s \in Range(frame[p].trace)
Bound(p, name) == name \in frame[p].bound

\* the stage of the system overview a statement belongs to (0: none named)
SpecStage(s) ==
    CASE s \in { "parse_arguments", "basicConfig", "set_all_seeds" } -> 1
      [] s = "init_experiment" -> 2
      [] s = "BertTokenizer" -> 3
      [] s \in { "BertStyleLMProcessor", "StreamingDataSilo" } -> 4
      [] s \in { "from_scratch", "BertLMHead", "NextSentenceHead", "AdaptiveModel" } -> 5
      [] s = "initialize_optimizer" -> 6
      [] s \in { "create_or_load_checkpoint", "train" } -> 7
      [] s \in { "model_save", "processor_save" } -> 8
      [] OTHER -> 0

\* the same stages with the seeding as a step of its own after the tracking init
SourceStage(s) ==
    CASE s \in { "parse_arguments", "basicConfig" } -> 1
      [] s = "init_experiment" -> 2
      [] s = "set_all_seeds" -> 3
      [] s = "BertTokenizer" -> 4
      [] s \in { "BertStyleLMProcessor", "StreamingDataSilo" } -> 5
      [] s \in { "from_scratch", "BertLMHead", "NextSentenceHead", "AdaptiveModel" } -> 6
      [] s = "initialize_optimizer" -> 7
      [] s \in { "create_or_load_checkpoint", "train" } -> 8
      [] s \in { "model_save", "processor_save" } -> 9
      [] OTHER -> 0

AllStatements ==
    { "parse_arguments", "use_amp", "basicConfig", "init_experiment",
      "set_all_seeds", "initialize_device_settings", "config",
      "BertTokenizer", "BertStyleLMProcessor", "StreamingDataSilo",
      "from_scratch", "BertLMHead", "NextSentenceHead", "AdaptiveModel",
      "initialize_optimizer", "checkpoint_config",
      "create_or_load_checkpoint", "train", "model_save", "processor_save" }

\* the executed statements respect the stage numbering: stages never go back,
\* a stage starts only when every statement of the earlier stages has run, and
\* no statement runs twice
InStageOrder(trace, Stage(_)) ==
    LET staged == SelectSeq(trace, LAMBDA s : Stage(s) # 0)
        ran == Range(trace)
        reached == { Stage(s) : s \in ran }
    IN  /\ \A i \in 1 .. (Len(staged) - 1) : Stage(staged[i]) <= Stage(staged[i + 1])
        /\ \A u \in AllStatements :
              (0 < Stage(u) /\ \E k \in reached : Stage(u) < k) => u \in ran
        /\ Cardinality(ran) = Len(trace)

\* C1 as stated: the eight stages run in the listed order, the seeding of
\* stage 1 before the tracking run of stage 2 is opened, no stage twice.
C1_SpecStageOrder ==
    \A p \in Running : InStageOrder(frame[p].trace, SpecStage)

\* C1 amended: the statements run once each in the order parse arguments and
\* log format, tracking init, seeding, tokenizer, data pipeline, model
\* assembly, optimizer and schedule, training, persistence; the seeding comes
\* after the tracking run is opened and before every later stage.
C1_SourceStageOrder ==
    \A p \in Running :
        /\ InStageOrder(frame[p].trace, SourceStage)
        /\ Ran(p, "set_all_seeds") => Ran(p, "init_experiment")

\* C1 witness: a run that went through every statement, persistence included
C1_RunCompleted ==
    \E p \in Running : frame[p].status = "done" /\ Len(frame[p].trace) = 20

\* C2: a failing statement ends the run aborted at that statement: it is not
\* retried, no later statement runs, no save is in progress, and a save that
\* did not run has written nothing to the save directory.
C2_FailureIsFatal ==
    \A p \in Running :
        LET f == frame[p] IN
        /\ f.raised_at # 0 =>
              /\ f.status = "aborted"
              /\ f.pc = f.raised_at
              /\ Len(f.trace) = f.raised_at - 1
              /\ \A i \in DOMAIN f.trace : f.trace[i] = Program[i]
              /\ p \notin writers
              /\ ~ reloaded[p].loaded
        /\ f.status = "aborted" => f.raised_at # 0
        /\ (Running = {p} /\ ~ Ran(p, "model_save")) =>
              << SaveDir, "model" >> \notin DOMAIN disk
        /\ (Running = {p} /\ ~ Ran(p, "processor_save")) =>
              /\ << SaveDir, "processor_config" >> \notin DOMAIN disk
              /\ << SaveDir, "vocab.txt" >> \notin DOMAIN disk

\* C2 witness: training failed part-way, after some micro-batches
C2_AbortedInTraining ==
    \E p \in Running :
        /\ frame[p].status = "aborted"
        /\ Program[frame[p].raised_at] = "train"
        /\ frame[p].trainer.micro > 0

\* C3: the encoder and the masked-LM head are built for the tokenizer's
\* vocabulary size, and stay so in every later state, the saved files included.
C3_VocabSizeAgrees ==
    \A p \in Running :
        LET f == frame[p] IN
        /\ Bound(p, "tokenizer") =>
              /\ f.tokenizer.vocab = LoadVocab(vocab_txt)
              /\ VocabSize(f.tokenizer) = Len(vocab_txt)
        /\ Bound(p, "language_model") =>
              f.language_model.vocab_size = VocabSize(f.tokenizer)
        /\ Bound(p, "lm_prediction_head") =>
              f.lm_prediction_head.vocab_size = VocabSize(f.tokenizer)
        /\ Bound(p, "model") =>
              /\ f.model.language_model.vocab_size = VocabSize(f.tokenizer)
              /\ f.model.prediction_heads[1].vocab_size = VocabSize(f.tokenizer)
        /\ (Ran(p, "model_save") /\ Running = {p}) =>
              disk[<< SaveDir, "model" >>].lm_head[2] = VocabSize(f.tokenizer)

\* C3 witness: a run persisted a model for a two-token vocabulary
C3_SavedTwoTokenModel ==
    \E p \in Running :
        /\ frame[p].status = "done"
        /\ VocabSize(frame[p].tokenizer) = 2
        /\ frame[p].model.prediction_heads[1].vocab_size = 2

\* quotient q equals a / b within rounding
WithinRounding(q, a, b) == b * q <= a /\ a < b * (q + 1)

\* C4: the step count the schedule is sized to, and the optimizer steps the
\* loop has taken when training returns, both equal
\* ceil(dataset_size / (batch_size * world_size)) * epochs / grad_acc within
\* rounding; schedule and loop are given the same epochs and grad_acc.
C4_OptimizerSteps ==
    \A p \in Running :
        LET f == frame[p]
            batches == CeilDiv(train_samples, f.batch_size * world_size) IN
        /\ Bound(p, "lr_schedule") =>
              WithinRounding(f.lr_schedule.total_steps, batches * f.n_epochs, f.grad_acc)
        /\ Bound(p, "trainer") =>
              /\ f.trainer.epochs = f.optimizer.n_epochs
              /\ f.trainer.grad_acc_steps = f.optimizer.grad_acc_steps
              /\ f.trainer.epochs = f.n_epochs
              /\ f.trainer.grad_acc_steps = f.grad_acc
        /\ Ran(p, "train") =>
              /\ WithinRounding(f.trainer.global_step, batches * f.n_epochs, f.grad_acc)
              /\ f.trainer.global_step = f.lr_schedule.total_steps
              /\ f.lr_schedule.position = f.lr_schedule.total_steps

\* C4 witness: two participants, several epochs, accumulation that does not
\* divide the number of micro-batches, and more than one optimizer step
C4_SeveralStepsWithRemainder ==
    \E p \in Running :
        /\ Ran(p, "train")
        /\ world_size = 2
        /\ frame[p].n_epochs = 2
        /\ frame[p].grad_acc = 3
        /\ frame[p].trainer.global_step >= 2
        /\ (frame[p].trainer.n_batches * frame[p].n_epochs) % frame[p].grad_acc # 0

\* C5: whatever --local_rank is, the tokenizer, the processor and the data
\* silo are built from the same paths, sequence length, batch size and
\* vocabulary, none of them computed from --local_rank, which is read only by
\* the device-selection and optimizer-initialization calls.
C5_RankDoesNotReachData ==
    \A p \in Running :
        LET f == frame[p] IN
        /\ f.tainted \cap { "tokenizer", "processor", "stream_data_silo",
                            "data_dir", "vocab_file", "train_filename",
                            "max_seq_len", "batch_size" } = {}
        /\ f.rank_calls \subseteq { "initialize_device_settings", "initialize_optimizer" }
        /\ Bound(p, "stream_data_silo") =>
              /\ f.tokenizer.vocab_path = << DataDir, VocabFile >>
              /\ f.tokenizer.vocab = LoadVocab(vocab_txt)
              /\ f.stream_data_silo.processor.tokenizer = f.tokenizer
              /\ f.stream_data_silo.processor.data_dir = DataDir
              /\ f.stream_data_silo.processor.train_filename = TrainFilename
              /\ f.stream_data_silo.processor.max_seq_len = MaxSeqLen
              /\ f.stream_data_silo.batch_size = BatchSize

\* C5 witness: a run with a non-default rank built its pipeline and used the
\* rank in both calls
C5_RankedRunBuiltPipeline ==
    \E p \in Running :
        /\ frame[p].argv = Some(1)
        /\ Bound(p, "stream_data_silo")
        /\ frame[p].rank_calls = { "initialize_device_settings", "initialize_optimizer" }
        /\ frame[p].optimizer.local_rank = 1

\* the generator state every component of the model is initialised from
InitialParameters(f) ==
    << f.language_model.init_rng, f.lm_prediction_head.init_rng,
       f.next_sentence_head.init_rng >>

\* C6: the initial parameters of the model are a function of the seed alone:
\* the generators are seeded before the data silo, the encoder and the heads
\* are built, whatever state the generators started in and whatever was drawn
\* from them before the seeding.
C6_SeedDeterminism ==
    \A p \in Running :
        LET f == frame[p] IN
        /\ Bound(p, "stream_data_silo") => Ran(p, "set_all_seeds")
        /\ Bound(p, "next_sentence_head") /\ Bound(p, "lm_prediction_head")
             /\ Bound(p, "language_model") =>
              InitialParameters(f) =
                 << [ src |-> "seed", val |-> Seed, draws |-> 0 ],
                    [ src |-> "seed", val |-> Seed, draws |-> 1 ],
                    [ src |-> "seed", val |-> Seed, draws |-> 2 ] >>
        /\ Bound(p, "model") =>
              /\ f.model.language_model = f.language_model
              /\ f.model.prediction_heads =
                    << f.lm_prediction_head, f.next_sentence_head >>

\* C6 witness: a model assembled in a process that started from the other
\* generator state and drew from it (the tracking init) before the seeding
C6_ModelFromOtherEntropy ==
    \E p \in Running :
        /\ frame[p].entropy = "entropy_b"
        /\ Bound(p, "model")
        /\ Ran(p, "init_experiment")

SavesAfterOwnTraining(p) ==
    LET f == frame[p] IN
    /\ (p \in writers \/ f.saves_begun # << >>) => Ran(p, "train")
    /\ p \in writers <=> f.saving
    /\ f.saves_begun \in { << >>, << "model_save" >>,
                           << "model_save", "processor_save" >> }
    /\ Ran(p, "model_save") => Len(f.saves_begun) >= 1
    /\ Ran(p, "processor_save") => Len(f.saves_begun) = 2

\* C8 as stated: the save directory is written only after training, and never
\* by two writers at the same time.
C8_NeverTwoWriters ==
    /\ \A p \in Running : SavesAfterOwnTraining(p)
    /\ Cardinality(writers) <= 1

\* C8 amended: each process writes the save directory only after its own
\* training has returned, model.save then processor.save, once each; nothing
\* is in the directory before some process has finished training; with a
\* single process there is never more than one writer.
C8_EachProcessSavesAfterItsTraining ==
    /\ \A p \in Running : SavesAfterOwnTraining(p)
    /\ DOMAIN disk # {} => \E p \in Running : Ran(p, "train")
    /\ \A k \in DOMAIN disk : k[1] = SaveDir
    /\ world_size = 1 => Cardinality(writers) <= 1

\* C8 witness: two processes are writing the save directory at the same time
C8_TwoProcessesWriting == Cardinality(writers) = 2

\* C9 as stated: --local_rank is read by the device-selection and the
\* optimizer-initialization calls only, and a run with the default rank builds
\* a data pipeline that is not distributed.
C9_DefaultRankBuildsPlainPipeline ==
    \A p \in Running :
        /\ frame[p].rank_calls \subseteq { "initialize_device_settings", "initialize_optimizer" }
        /\ (Bound(p, "stream_data_silo") /\ frame[p].args.local_rank = DefaultLocalRank)
              => ~ frame[p].stream_data_silo.distributed

\* C10: with checkpoint_every and checkpoint_root_dir None the trainer is never
\* resumed from a checkpoint and the loop writes none: every optimizer step the
\* model and the schedule have seen was taken in this run, the only files
\* written are those of the two saves, and use_amp is None in the device,
\* optimizer and trainer calls.
C10_NoCheckpointing ==
    /\ checkpoints_written = 0
    /\ DOMAIN disk \subseteq { << SaveDir, "model" >>, << SaveDir, "processor_config" >>,
                               << SaveDir, "vocab.txt" >> }
    /\ \A p \in Running :
        LET f == frame[p] IN
        /\ Bound(p, "device") => f.device.use_amp = None
        /\ Bound(p, "optimizer") => f.optimizer.use_amp = None
        /\ Bound(p, "trainer") =>
              /\ ~ f.trainer.resumed
              /\ f.trainer.checkpoint_every = None
              /\ f.trainer.checkpoint_root_dir = None
              /\ f.trainer.use_amp = None
              /\ f.model.updates = f.trainer.global_step
              /\ f.lr_schedule.position = f.trainer.global_step
              /\ f.trainer.global_step * f.trainer.grad_acc_steps <= f.trainer.micro
              /\ f.trainer.micro <= f.trainer.epochs * f.trainer.n_batches

\* C10 witness: a run trained and saved while an older checkpoint lay on disk
C10_TrainedBesideOldCheckpoint ==
    \E p \in Running :
        /\ frame[p].status = "done"
        /\ checkpoint_on_disk = Some(OldCheckpoint)
        /\ frame[p].model.updates >= 1
        /\ DOMAIN disk # {}

====
